---- MODULE Spec2Model ----
(***************************************************************************)
(* Transaction lifecycle of the MultiversX timestamp service:              *)
(* TransactionController (prepare / register / status), VerifyController,  *)
(* BlockchainService.createTimestamp / verifyTimestamp and the Redis       *)
(* backed CacheService, with the blockchain network as environment.        *)
(*                                                                         *)
(* Every await of a handler is a suspension point: a handler is a sequence *)
(* of atomic steps, one per cache command or network reply, and the steps  *)
(* of concurrent requests interleave freely.  Time is counted in seconds   *)
(* and advances from one key expiry to the next; a sleep is a suspension  *)
(* point of unspecified length.  JS objects are records; a field that the  *)
(* JS object lacks is absent from the record's DOMAIN.                     *)
(***************************************************************************)
EXTENDS Integers, FiniteSets, Sequences, TLC

VARIABLES
    now,        \* wall clock, seconds
    cache,      \* Redis: key -> [val, exp] (NoEntry when the key is absent)
    connected,  \* CacheService.connected
    chain,      \* the network: transaction hash -> transaction or NotOnNetwork
    reqs,       \* the HTTP requests in flight, one per slot
    last,       \* the request answered most recently, with its response
    calls,      \* number of requests accepted so far
    ticks       \* number of clock advances so far

vars == <<now, cache, connected, chain, reqs, last, calls, ticks>>

----------------------------------------------------------------------------
(* Bounds *)

MaxCalls == 3

MaxTicks == 2

(* Program constants *)

PreparedTTL == 300

RedisTTL == 86400

----------------------------------------------------------------------------
(* Input domains.  The requests modelled are those that passed the API key  *)
(* check and the Joi schema of their route: addresses are well-formed erd1  *)
(* addresses, hashes are 64-hex digests, data is a non-empty string.  The   *)
(* Redis client is ready and the blockchain service is initialised, as they *)
(* are once Application.start() listens.                                    *)

Users == {"erd1alice", "erd1bob"}

Data == {"d1"}

TxHashes == {"tx1"}

Slots == {"r1", "r2"}

\* HashUtils.sha256 of a string input: the digest, taken to be collision free.
sha256(d) == IF d = "d1" THEN "hash_d1" ELSE "hash_other"

Hashes == {sha256(d) : d \in Data}

\* The sender that signed each transaction known to the network.
TxSender(t) == IF t = "tx1" THEN "erd1alice" ELSE "erd1bob"

\* The data hash in the payload of each transaction known to the network.
TxDataHash(t) == IF t = "tx1" THEN "hash_d1" ELSE "hash_other"

----------------------------------------------------------------------------
(* JS values *)

Null == [isNull |-> TRUE]

Has(r, f) == f \in DOMAIN r

Key(ns, id) == <<ns, id>>

Keys == ({"timestamp", "prepared"} \X Hashes) \cup ({"verification"} \X (Hashes \cup TxHashes))

NoEntry == [val |-> Null, exp |-> 0]

NotOnNetwork == [absent |-> TRUE]

Idle == [op |-> "none", pc |-> "idle", args |-> Null, loc |-> Null,
         net |-> 0, writes |-> {}, response |-> Null]

----------------------------------------------------------------------------
(* CacheService *)

\* CacheService.get: null when disconnected, on a miss or on an expired key.
CacheGet(key) ==
    IF ~connected THEN Null
    ELSE IF cache[key] = NoEntry \/ now >= cache[key].exp THEN Null
    ELSE cache[key].val

\* CacheService.set: SETEX key (ttl || config.redis.ttl) value; skipped when disconnected.
CacheSet(c, key, value, ttl) ==
    IF ~connected THEN c
    ELSE [c EXCEPT ![key] = [val |-> value, exp |-> now + (IF ttl = 0 THEN RedisTTL ELSE ttl)]]

\* CacheService.delete: DEL key; skipped when disconnected.
CacheDelete(c, key) ==
    IF ~connected THEN c ELSE [c EXCEPT ![key] = NoEntry]

cacheTimestamp(c, dataHash, transaction) ==
    CacheSet(c, Key("timestamp", dataHash), transaction, RedisTTL)

getCachedTimestamp(dataHash) == CacheGet(Key("timestamp", dataHash))

cacheVerification(c, id, verification) ==
    CacheSet(c, Key("verification", id), verification, RedisTTL)

getCachedVerification(id) == CacheGet(Key("verification", id))

\* Variant: an unexpired staging record is kept (SET ... NX).
storePreparedTransaction_KeepExisting(c, dataHash, preparedTx, ttl) ==
    IF CacheGet(Key("prepared", dataHash)) # Null THEN c
    ELSE CacheSet(c, Key("prepared", dataHash), preparedTx, ttl)

storePreparedTransaction(c, dataHash, preparedTx, ttl) ==
    CacheSet(c, Key("prepared", dataHash), preparedTx, ttl)

getPreparedTransaction(dataHash) == CacheGet(Key("prepared", dataHash))

deletePreparedTransaction(c, dataHash) == CacheDelete(c, Key("prepared", dataHash))

----------------------------------------------------------------------------
(* ResponseUtils *)

getErrorCode(statusCode) ==
    CASE statusCode = 400 -> "BAD_REQUEST"
      [] statusCode = 401 -> "UNAUTHORIZED"
      [] statusCode = 403 -> "FORBIDDEN"
      [] statusCode = 404 -> "NOT_FOUND"
      [] statusCode = 409 -> "CONFLICT"
      [] statusCode = 422 -> "UNPROCESSABLE_ENTITY"
      [] statusCode = 429 -> "RATE_LIMIT_EXCEEDED"
      [] statusCode = 500 -> "INTERNAL_SERVER_ERROR"
      [] statusCode = 502 -> "BAD_GATEWAY"
      [] statusCode = 503 -> "SERVICE_UNAVAILABLE"
      [] statusCode = 504 -> "GATEWAY_TIMEOUT"
      [] OTHER -> "UNKNOWN_ERROR"

\* ResponseUtils.success(res, data): HTTP 200, {success: true, data}.
ResponseSuccess(data) == [http |-> 200, success |-> TRUE, data |-> data]

\* ResponseUtils.error(res, message, statusCode, code, details):
\* error.code is code || getErrorCode(statusCode).
ResponseError(message, statusCode, code, details) ==
    [http |-> statusCode, success |-> FALSE,
     error |-> [code |-> IF code = Null THEN [name |-> getErrorCode(statusCode)] ELSE code,
                message |-> message,
                details |-> details]]

NoDetails == [empty |-> TRUE]

----------------------------------------------------------------------------
(* The network (environment) *)

\* networkProvider.getAccount(address).nonce: the number of the sender's
\* transactions the network has accepted.
AccountNonce(u) == Cardinality({t \in TxHashes : chain[t] # NotOnNetwork /\ TxSender(t) = u})

\* multiversXConfig.getExplorerUrl
getExplorerUrl(t) == <<"explorer/transactions", t>>

BlockNonceOf(t) == IF t = "tx1" THEN 7 ELSE 8

\* A signed transaction reaches the network, where it is pending at first.
NetAccept(t) ==
    /\ chain[t] = NotOnNetwork
    /\ chain' = [chain EXCEPT ![t] =
                   [status |-> "pending", blockNonce |-> BlockNonceOf(t), timestamp |-> now]]
    /\ UNCHANGED <<now, cache, connected, reqs, last, calls, ticks>>

\* A pending transaction is executed in a block; the block's time becomes its timestamp.
NetExecute(t) ==
    /\ chain[t] # NotOnNetwork
    /\ chain[t].status = "pending"
    /\ \E st \in {"success", "fail"} :
          chain' = [chain EXCEPT ![t].status = st, ![t].timestamp = now]
    /\ UNCHANGED <<now, cache, connected, reqs, last, calls, ticks>>

\* What networkProvider.getTransaction(t) can answer: the transaction, nothing,
\* or a thrown error (not found, gateway unreachable).
LookupOutcomes(t) ==
    IF chain[t] = NotOnNetwork THEN {[threw |-> TRUE], Null}
    ELSE {[threw |-> TRUE], chain[t]}

----------------------------------------------------------------------------
(* The clock *)

Deadlines == {cache[k].exp : k \in {k \in Keys : cache[k] # NoEntry}}

Min(S) == CHOOSE x \in S : \A y \in S : x <= y

\* Time passes up to the next deadline; Redis drops the keys that expire then.
Tick ==
    /\ ticks < MaxTicks
    /\ ticks' = ticks + 1
    /\ \E d \in Deadlines : d > now
    /\ LET next == Min({d \in Deadlines : d > now}) IN
         /\ now' = next
         /\ cache' = [k \in Keys |->
                        IF cache[k] # NoEntry /\ cache[k].exp <= next THEN NoEntry ELSE cache[k]]
    /\ UNCHANGED <<connected, chain, reqs, last, calls>>

----------------------------------------------------------------------------
(* Requests *)

\* A slot takes a new request when it holds none.
Free(r) == reqs[r].pc = "idle" /\ calls < MaxCalls

Begin(op, pc, args, loc) ==
    [op |-> op, pc |-> pc, args |-> args, loc |-> loc,
     net |-> 0, writes |-> {}, response |-> Null]

\* The handler answers: the request is done.
Answer(q, response) == [q EXCEPT !.pc = "done", !.response = response]

Wrote(q, key) == [q EXCEPT !.writes = @ \cup {key}]

Called(q) == [q EXCEPT !.net = @ + 1]

\* History: the value that the request's write to key replaces.
Replaced(q, key) == [q EXCEPT !.loc = @ @@ [replaced |-> cache[key].val]]

\* Request r moves on to q; an answered request leaves its slot.
Step(r, q) ==
    /\ reqs' = [reqs EXCEPT ![r] = IF q.pc = "done" THEN Idle ELSE q]
    /\ last' = IF q.pc = "done" THEN q ELSE last

----------------------------------------------------------------------------
(* TransactionController.prepareTransaction *)

\* Variant: only a record with a block reference counts as timestamped.
AlreadyTimestamped_ConfirmedOnly(cachedTimestamp) ==
    cachedTimestamp # Null /\ Has(cachedTimestamp, "blockNumber")

\* if (cachedTimestamp): the data is already timestamped.
AlreadyTimestamped(cachedTimestamp) == cachedTimestamp # Null

\* POST /prepare-transaction up to the reply of getCachedTimestamp.
PrepareCall(r, userAddress, data) ==
    /\ Free(r)
    /\ calls' = calls + 1
    /\ LET dataHash == sha256(data)
           cachedTimestamp == getCachedTimestamp(dataHash)
           q == Begin("prepare", "p_nonce",
                      [userAddress |-> userAddress, data |-> data],
                      [dataHash |-> dataHash, cachedTimestamp |-> cachedTimestamp])
       IN Step(r,
            IF AlreadyTimestamped(cachedTimestamp)
            THEN Answer(q, ResponseError("Data already timestamped", 409,
                            [dataHash |-> dataHash, existingTimestamp |-> cachedTimestamp],
                            NoDetails))
            ELSE q)
    /\ UNCHANGED <<now, cache, connected, chain, ticks>>

\* networkProvider.getAccount answers (or throws); the unsigned transaction is built.
PrepareNonce(r) ==
    /\ reqs[r].pc = "p_nonce"
    /\ LET q == Called(reqs[r])
           u == q.args.userAddress
           unsignedTransaction ==
               [nonce |-> AccountNonce(u), value |-> "0", receiver |-> u, sender |-> u,
                data |-> [dataHash |-> q.loc.dataHash],
                version |-> 1]
       IN \E threw \in BOOLEAN :
            Step(r,
              IF threw
              THEN Answer(q, ResponseError("Failed to prepare transaction", 500, Null, NoDetails))
              ELSE [q EXCEPT !.pc = "p_store",
                             !.loc = @ @@ [preparedTx |->
                                 [transaction |-> unsignedTransaction,
                                  dataHash |-> q.loc.dataHash,
                                  userAddress |-> u,
                                  preparedAt |-> now]]])
    /\ UNCHANGED <<now, cache, connected, chain, calls, ticks>>

\* storePreparedTransaction(dataHash, {...}, 300) takes effect; 200 is answered.
PrepareStore(r) ==
    /\ reqs[r].pc = "p_store"
    /\ LET q == reqs[r]
           h == q.loc.dataHash
       IN /\ cache' = storePreparedTransaction(cache, h, q.loc.preparedTx, PreparedTTL)
          /\ Step(r,
                Answer(Wrote(Replaced(q, Key("prepared", h)), Key("prepared", h)),
                       ResponseSuccess([success |-> TRUE,
                                        transaction |-> q.loc.preparedTx.transaction,
                                        dataHash |-> h])))
    /\ UNCHANGED <<now, connected, chain, calls, ticks>>

----------------------------------------------------------------------------
(* TransactionController.registerSignedTransaction *)

Threw == [threw |-> TRUE]

\* Variant: a lookup that finds nothing marks the registration as failed.
PendingResult_Failed(transactionHash, dataHash, userAddress) ==
    [transactionHash |-> transactionHash, dataHash |-> dataHash,
     userAddress |-> userAddress, status |-> "failed", submittedAt |-> now]

\* The record built when the lookup finds nothing or throws.
PendingResult(transactionHash, dataHash, userAddress) ==
    [transactionHash |-> transactionHash, dataHash |-> dataHash,
     userAddress |-> userAddress, status |-> "pending", submittedAt |-> now]

\* The record built from the transaction found on the network.
FoundResult(transactionHash, dataHash, userAddress, transactionOnNetwork) ==
    [transactionHash |-> transactionHash, dataHash |-> dataHash,
     blockNumber |-> transactionOnNetwork.blockNonce,
     blockTimestamp |-> transactionOnNetwork.timestamp * 1000,
     explorerUrl |-> getExplorerUrl(transactionHash),
     status |-> transactionOnNetwork.status,
     userAddress |-> userAddress]

\* The body answered for a found transaction: {success: true, status: 'confirmed', ...result}.
\* The spread comes last, so the fields of result win.
ConfirmedBody(result) == result @@ [success |-> TRUE, status |-> "confirmed"]

\* if (!preparedTx)
PreparedMissing(preparedTx) == preparedTx = Null

\* Variant: the missing staging record is reported as a bad request.
PreparedNotFound_BadRequest ==
    ResponseError("Prepared transaction not found or expired", 400, Null, NoDetails)

\* The answer for a missing or expired staging record.
PreparedNotFound ==
    ResponseError("Prepared transaction not found or expired", 404, Null, NoDetails)

\* Variant: the owner of the staging record is not checked.
UserMismatch_Unchecked(preparedTx, userAddress) == FALSE

\* if (preparedTx.userAddress !== userAddress)
UserMismatch(preparedTx, userAddress) == preparedTx.userAddress # userAddress

\* POST /register-transaction up to the reply of getPreparedTransaction.
RegisterCall(r, transactionHash, dataHash, userAddress) ==
    /\ Free(r)
    /\ calls' = calls + 1
    /\ LET preparedTx == getPreparedTransaction(dataHash)
           q == Begin("register", "r_lookup",
                      [transactionHash |-> transactionHash, dataHash |-> dataHash,
                       userAddress |-> userAddress],
                      [preparedTx |-> preparedTx])
       IN Step(r,
            IF PreparedMissing(preparedTx)
            THEN Answer(q, PreparedNotFound)
            ELSE IF UserMismatch(preparedTx, userAddress)
            THEN Answer(q, ResponseError("Transaction user mismatch", 403, Null, NoDetails))
            ELSE q)
    /\ UNCHANGED <<now, cache, connected, chain, ticks>>

\* After the 2000 ms sleep, networkProvider.getTransaction answers or throws.
RegisterLookup(r) ==
    /\ reqs[r].pc = "r_lookup"
    /\ LET q == Called(reqs[r])
           a == q.args
       IN \E transactionOnNetwork \in LookupOutcomes(a.transactionHash) :
            LET found == transactionOnNetwork \notin {Threw, Null}
                result == IF found
                          THEN FoundResult(a.transactionHash, a.dataHash, a.userAddress,
                                           transactionOnNetwork)
                          ELSE PendingResult(a.transactionHash, a.dataHash, a.userAddress)
            IN Step(r,
                 [q EXCEPT !.pc = "r_cache",
                           !.loc = @ @@ [found |-> found, result |-> result]])
    /\ UNCHANGED <<now, cache, connected, chain, calls, ticks>>

\* cacheTimestamp(dataHash, result) takes effect; a pending registration is answered.
RegisterCache(r) ==
    /\ reqs[r].pc = "r_cache"
    /\ LET q == Wrote(reqs[r], Key("timestamp", reqs[r].args.dataHash))
           a == q.args
       IN /\ cache' = cacheTimestamp(cache, a.dataHash, q.loc.result)
          /\ Step(r,
                IF q.loc.found
                THEN [q EXCEPT !.pc = "r_delete"]
                ELSE Answer(q, ResponseSuccess(
                        [success |-> TRUE, status |-> "pending",
                         transactionHash |-> a.transactionHash, dataHash |-> a.dataHash])))
    /\ UNCHANGED <<now, connected, chain, calls, ticks>>

\* deletePreparedTransaction(dataHash) takes effect; the confirmed registration is answered.
RegisterDelete(r) ==
    /\ reqs[r].pc = "r_delete"
    /\ LET q == Wrote(reqs[r], Key("prepared", reqs[r].args.dataHash))
       IN /\ cache' = deletePreparedTransaction(cache, q.args.dataHash)
          /\ Step(r,
                Answer(q, ResponseSuccess(ConfirmedBody(q.loc.result))))
    /\ UNCHANGED <<now, connected, chain, calls, ticks>>

----------------------------------------------------------------------------
(* TransactionController.getTransactionStatus *)

\* GET /transaction/:txHash/status up to the reply of getCachedVerification.
StatusCall(r, txHash) ==
    /\ Free(r)
    /\ calls' = calls + 1
    /\ LET cachedVerification == getCachedVerification(txHash)
           q == Begin("status", "s_lookup", [txHash |-> txHash],
                      [cachedVerification |-> cachedVerification])
       IN Step(r, IF cachedVerification # Null
                  THEN Answer(q, ResponseSuccess(cachedVerification))
                  ELSE q)
    /\ UNCHANGED <<now, cache, connected, chain, ticks>>

\* networkProvider.getTransaction answers or throws.
StatusLookup(r) ==
    /\ reqs[r].pc = "s_lookup"
    /\ LET q == Called(reqs[r])
           txHash == q.args.txHash
       IN \E transaction \in LookupOutcomes(txHash) :
            Step(r,
              IF transaction = Threw
              THEN Answer(q, ResponseError("Transaction not found on network", 404,
                                           Null, NoDetails))
              ELSE IF transaction = Null
              THEN Answer(q, ResponseError("Transaction not found", 404, Null, NoDetails))
              ELSE [q EXCEPT !.pc = "s_cache",
                             !.loc = @ @@ [result |->
                                 [transactionHash |-> txHash,
                                  status |-> transaction.status,
                                  blockNumber |-> transaction.blockNonce,
                                  blockTimestamp |-> transaction.timestamp * 1000,
                                  explorerUrl |-> getExplorerUrl(txHash)]]])
    /\ UNCHANGED <<now, cache, connected, chain, calls, ticks>>

\* cacheVerification(txHash, result) takes effect; 200 is answered.
StatusCache(r) ==
    /\ reqs[r].pc = "s_cache"
    /\ LET q == Wrote(reqs[r], Key("verification", reqs[r].args.txHash))
       IN /\ cache' = cacheVerification(cache, q.args.txHash, q.loc.result)
          /\ Step(r, Answer(q, ResponseSuccess(q.loc.result)))
    /\ UNCHANGED <<now, connected, chain, calls, ticks>>

----------------------------------------------------------------------------
(* BlockchainService.verifyTimestamp and VerifyController.verifyHashByGet *)

\* Variant: a miss is reported as a failed cache lookup.
verifyTimestamp_MissFromCache(dataHash) ==
    LET cachedTimestamp == getCachedTimestamp(dataHash)
    IN IF cachedTimestamp # Null
       THEN [verified |-> TRUE, timestamp |-> cachedTimestamp, source |-> "cache"]
       ELSE [verified |-> FALSE, timestamp |-> Null, source |-> "cache"]

\* verifyTimestamp: verified exactly when timestamp:<dataHash> is in the cache.
verifyTimestamp(dataHash) ==
    LET cachedTimestamp == getCachedTimestamp(dataHash)
    IN IF cachedTimestamp # Null
       THEN [verified |-> TRUE, timestamp |-> cachedTimestamp, source |-> "cache"]
       ELSE [verified |-> FALSE, timestamp |-> Null, source |-> "blockchain"]

Pick(o, fields) == [f \in (DOMAIN o) \cap fields |-> o[f]]

\* GET /verify/:hash up to the reply of getCachedVerification.
VerifyCall(r, hash) ==
    /\ Free(r)
    /\ calls' = calls + 1
    /\ LET cachedResult == getCachedVerification(hash)
           q == Begin("verify", "v_verify", [hash |-> hash], [cachedResult |-> cachedResult])
       IN Step(r, IF cachedResult # Null
                  THEN Answer(q, ResponseSuccess(cachedResult @@ [cached |-> TRUE]))
                  ELSE q)
    /\ UNCHANGED <<now, cache, connected, chain, ticks>>

\* blockchainService.verifyTimestamp(hash) reads timestamp:<hash>.
VerifyLookup(r) ==
    /\ reqs[r].pc = "v_verify"
    /\ LET q == reqs[r]
       IN Step(r, [q EXCEPT !.pc = "v_cache",
                            !.loc = @ @@ [verificationResult |-> verifyTimestamp(q.args.hash)]])
    /\ UNCHANGED <<now, cache, connected, chain, calls, ticks>>

\* cacheVerification(hash, verificationResult) takes effect; 200 is answered.
VerifyCache(r) ==
    /\ reqs[r].pc = "v_cache"
    /\ LET q == Wrote(reqs[r], Key("verification", reqs[r].args.hash))
           verificationResult == q.loc.verificationResult
       IN /\ cache' = cacheVerification(cache, q.args.hash, verificationResult)
          /\ Step(r, Answer(q, ResponseSuccess(
                [verified |-> verificationResult.verified,
                 hash |-> q.args.hash,
                 timestamp |-> verificationResult.timestamp,
                 source |-> verificationResult.source,
                 cached |-> FALSE]
                @@ Pick(verificationResult.timestamp,
                        {"transactionHash", "blockNumber", "blockTimestamp"}))))
    /\ UNCHANGED <<now, connected, chain, calls, ticks>>

----------------------------------------------------------------------------
(* TimestampController.createTimestamp and BlockchainService.createTimestamp *)

\* The controller's answer: the listed fields of the service's result.
TimestampCreated(timestampResult) ==
    [http |-> 200, success |-> TRUE,
     timestamp |-> Pick(timestampResult,
                        {"success", "dataHash", "timestamp", "transactionData", "message"})]

\* POST /timestamp up to the reply of getCachedTimestamp: a cached record is
\* returned as it is, otherwise the transaction data for signing is built.
CreateCall(r, data) ==
    /\ Free(r)
    /\ calls' = calls + 1
    /\ LET dataHash == sha256(data)
           cachedTimestamp == getCachedTimestamp(dataHash)
           result == [success |-> TRUE, dataHash |-> dataHash, timestamp |-> now,
                      transactionData |-> [data |-> [dataHash |-> dataHash], value |-> "0"],
                      message |-> "Transaction prepared for user signing with xPortal"]
           q == Begin("create", "c_cache", [data |-> data],
                      [dataHash |-> dataHash, cachedTimestamp |-> cachedTimestamp,
                       result |-> result])
       IN Step(r, IF cachedTimestamp # Null
                  THEN Answer(q, TimestampCreated(cachedTimestamp))
                  ELSE q)
    /\ UNCHANGED <<now, cache, connected, chain, ticks>>

\* cacheTimestamp(dataHash, result) takes effect; 200 is answered.
CreateCache(r) ==
    /\ reqs[r].pc = "c_cache"
    /\ LET q == Wrote(reqs[r], Key("timestamp", reqs[r].loc.dataHash))
       IN /\ cache' = cacheTimestamp(cache, q.loc.dataHash, q.loc.result)
          /\ Step(r, Answer(q, TimestampCreated(q.loc.result)))
    /\ UNCHANGED <<now, connected, chain, calls, ticks>>

----------------------------------------------------------------------------

Init ==
    /\ now = 0
    /\ cache = [k \in Keys |-> NoEntry]
    /\ connected = TRUE
    /\ chain = [t \in TxHashes |-> NotOnNetwork]
    /\ reqs = [r \in Slots |-> Idle]
    /\ last = Idle
    /\ calls = 0
    /\ ticks = 0

Next ==
    \/ \E r \in Slots, u \in Users, d \in Data : PrepareCall(r, u, d)
    \/ \E r \in Slots : PrepareNonce(r)
    \/ \E r \in Slots : PrepareStore(r)
    \/ \E r \in Slots, t \in TxHashes, h \in Hashes, u \in Users : RegisterCall(r, t, h, u)
    \/ \E r \in Slots : RegisterLookup(r)
    \/ \E r \in Slots : RegisterCache(r)
    \/ \E r \in Slots : RegisterDelete(r)
    \/ \E r \in Slots, t \in TxHashes : StatusCall(r, t)
    \/ \E r \in Slots : StatusLookup(r)
    \/ \E r \in Slots : StatusCache(r)
    \/ \E r \in Slots, h \in Hashes : VerifyCall(r, h)
    \/ \E r \in Slots : VerifyLookup(r)
    \/ \E r \in Slots : VerifyCache(r)
    \/ \E r \in Slots, d \in Data : CreateCall(r, d)
    \/ \E r \in Slots : CreateCache(r)
    \/ \E t \in TxHashes : NetAccept(t)
    \/ \E t \in TxHashes : NetExecute(t)
    \/ Tick

Spec == Init /\ [][Next]_vars

----------------------------------------------------------------------------
(* VerifyController.verifyBatch, reached without body validation through    *)
(* POST /verify/bulk-file.  One request per behaviour: Init draws the body  *)
(* and the timestamps in the cache.  A JSON value is a record with its kind; *)
(* a string is the sequence of its characters.                               *)

MaxLen == 3

BatchLimit == 50

HashLen == 64

Str(chars) == [kind |-> "string", chars |-> chars]

Arr(items) == [kind |-> "array", items |-> items]

Undefined == [kind |-> "undefined"]

Rep(c, n) == [i \in 1..n |-> c]

\* The two well-formed hashes of the batches, as character sequences.
HashA == Rep("a", HashLen)

HashB == Rep("B", HashLen)

BatchHashes == {HashA, HashB}

\* The array entries drawn: well-formed hashes, a hash one character short, a
\* hash with a non-hex last character, and a well-formed hash wrapped in an array.
BatchEntries ==
    {Str(HashA), Str(HashB), Str(Rep("a", HashLen - 1)),
     Str([i \in 1..HashLen |-> IF i = HashLen THEN "g" ELSE "a"]),
     Arr(<<Str(HashA)>>)}

SeqsUpTo(S, n) == UNION {[1..k -> S] : k \in 0..n}

\* Batches at and just above the limit of 50: well-formed hashes, alternating.
LongBatch(n) == [i \in 1..n |-> IF i % 2 = 1 THEN Str(HashA) ELSE Str(HashB)]

BatchBodies ==
    {Undefined, Str(HashA)}
      \cup {Arr(items) : items \in SeqsUpTo(BatchEntries, MaxLen)}
      \cup {Arr(LongBatch(BatchLimit)), Arr(LongBatch(BatchLimit + 1))}

RECURSIVE JoinComma(_)
\* Array.prototype.join(","), for an array of strings.
JoinComma(items) ==
    IF Len(items) = 0 THEN <<>>
    ELSE IF Len(items) = 1 THEN items[1].chars
    ELSE items[1].chars \o <<",">> \o JoinComma(Tail(items))

\* ToString of a JSON value: the conversion RegExp.prototype.test and a template literal apply.
StringOf(v) ==
    IF v.kind = "string" THEN v.chars
    ELSE IF v.kind = "array" THEN JoinComma(v.items)
    ELSE <<"u", "n", "d", "e", "f", "i", "n", "e", "d">>

IsHexChar(c) ==
    c \in {"0", "1", "2", "3", "4", "5", "6", "7", "8", "9",
           "a", "b", "c", "d", "e", "f", "A", "B", "C", "D", "E", "F"}

\* HashUtils.isValidSHA256: /^[a-f0-9]{64}$/i.test(hash).
isValidSHA256(hash) ==
    LET s == StringOf(hash) IN Len(s) = HashLen /\ \A i \in 1..Len(s) : IsHexChar(s[i])

\* ResponseUtils.validationError(res, errors)
ValidationError(errors) ==
    ResponseError("Validation failed", 400, [name |-> "VALIDATION_ERROR"], [errors |-> errors])

\* Variant: a lookup that threw is reported as a hash that was not found.
BatchItem_ThrownAsNotFound(hash, outcome) ==
    IF outcome = Threw
    THEN [hash |-> hash, verified |-> FALSE, timestamp |-> Null, source |-> "blockchain",
          error |-> Null]
    ELSE [hash |-> hash, verified |-> outcome.verified, timestamp |-> outcome.timestamp,
          source |-> outcome.source, error |-> Null]

\* The item that the mapped async function returns for one hash.
BatchItem(hash, outcome) ==
    IF outcome = Threw
    THEN [hash |-> hash, verified |-> FALSE, timestamp |-> Null, source |-> Null,
          error |-> [message |-> "Failed to verify timestamp"]]
    ELSE [hash |-> hash, verified |-> outcome.verified, timestamp |-> outcome.timestamp,
          source |-> outcome.source, error |-> Null]

\* POST body validation of verifyBatch, up to hashes.map: the validation error
\* answered, or every lookup started.
BatchValidate(r) ==
    /\ reqs[r].pc = "b_validate"
    /\ LET q == reqs[r]
           hashes == q.args.hashes
       IN Step(r,
            IF hashes.kind # "array" \/ Len(hashes.items) = 0
            THEN Answer(q, ValidationError(
                     [field |-> "hashes",
                      message |-> "Hashes array is required and must not be empty"]))
            ELSE IF Len(hashes.items) > BatchLimit
            THEN Answer(q, ValidationError(
                     [field |-> "hashes",
                      message |-> "Maximum 50 hashes allowed per batch request"]))
            ELSE IF \E i \in 1..Len(hashes.items) : ~isValidSHA256(hashes.items[i])
            THEN Answer(q, ValidationError(
                     [field |-> "hashes", message |-> "Invalid hash format",
                      value |-> {i \in 1..Len(hashes.items) : ~isValidSHA256(hashes.items[i])}]))
            ELSE [q EXCEPT !.pc = "b_lookups",
                           !.loc = [settled |-> [i \in 1..Len(hashes.items) |-> Null]]])
    /\ UNCHANGED <<now, cache, connected, chain, calls, ticks>>

\* The lookups of a batch longer than MaxLen settle in index order, and at most
\* one of them throws; shorter batches settle in every order with any throws.
MaySettle(q, i) ==
    LET n == Len(q.args.hashes.items) IN
    n > MaxLen => \A j \in 1..(i - 1) : q.loc.settled[j] # Null

MayThrow(q) ==
    LET n == Len(q.args.hashes.items) IN
    n > MaxLen => \A j \in 1..n : q.loc.settled[j] = Null \/ q.loc.settled[j].error = Null

\* blockchainService.verifyTimestamp(hash) of entry i settles: it returns what
\* timestamp:<hash> holds, or throws.
BatchLookup(r, i) ==
    /\ reqs[r].pc = "b_lookups"
    /\ i \in 1..Len(reqs[r].args.hashes.items)
    /\ reqs[r].loc.settled[i] = Null
    /\ MaySettle(reqs[r], i)
    /\ LET q == reqs[r]
           hash == q.args.hashes.items[i]
       IN \E outcome \in {verifyTimestamp(StringOf(hash))}
                            \cup (IF MayThrow(q) THEN {Threw} ELSE {}) :
            Step(r, [q EXCEPT !.loc.settled[i] = BatchItem(hash, outcome)])
    /\ UNCHANGED <<now, cache, connected, chain, calls, ticks>>

\* Promise.all resolves once every lookup has settled: statistics, 200.
BatchRespond(r) ==
    /\ reqs[r].pc = "b_lookups"
    /\ \A i \in 1..Len(reqs[r].args.hashes.items) : reqs[r].loc.settled[i] # Null
    /\ LET q == reqs[r]
           results == q.loc.settled
           all == 1..Len(results)
           stats == [total |-> Len(results),
                     verified |-> Cardinality({i \in all : results[i].verified}),
                     failed |-> Cardinality({i \in all : results[i].error # Null}),
                     notFound |-> Cardinality({i \in all : ~results[i].verified
                                                            /\ results[i].error = Null})]
       IN Step(r, Answer(q, ResponseSuccess(
                     [results |-> results, statistics |-> stats, timestamp |-> now])))
    /\ UNCHANGED <<now, cache, connected, chain, calls, ticks>>

BatchKeys == {"timestamp"} \X BatchHashes

\* A batch request has arrived; any of the well-formed hashes may be timestamped.
BatchInit ==
    /\ now = 0
    /\ \E T \in SUBSET BatchHashes :
          cache = [k \in BatchKeys |->
                     IF k[2] \in T
                     THEN [val |-> [transactionHash |-> "tx1", dataHash |-> k[2],
                                    status |-> "pending"],
                           exp |-> RedisTTL]
                     ELSE NoEntry]
    /\ connected = TRUE
    /\ chain = [t \in TxHashes |-> NotOnNetwork]
    /\ \E hashes \in BatchBodies :
          reqs = [r \in Slots |->
                    IF r = "r1"
                    THEN Begin("batch", "b_validate", [hashes |-> hashes], Null)
                    ELSE Idle]
    /\ last = Idle
    /\ calls = 1
    /\ ticks = 0

BatchNext ==
    \/ \E r \in Slots : BatchValidate(r)
    \/ \E r \in Slots, i \in 1..BatchLimit : BatchLookup(r, i)
    \/ \E r \in Slots : BatchRespond(r)

BatchSpec == BatchInit /\ [][BatchNext]_vars

----------------------------------------------------------------------------
(* BlockchainService.getTransaction and waitForTransactionCompletion.  One   *)
(* call per behaviour, begun at time 0; the clock advances second by second  *)
(* and the network accepts and executes the transaction at any time.         *)

MaxSeconds == 6

PollMs == 2000

TimeoutsMs == {3000, 4000}

\* networkProvider.getTransaction failed with a message that mentions a timeout.
ThrewTimeout == [threw |-> TRUE, timeout |-> TRUE]

\* The messages of the errors that waitForTransactionCompletion can catch.
MsgNotFound == "Failed to get transaction: Transaction not found"

MsgNetwork == "Failed to get transaction: connect ECONNREFUSED"

MsgNetworkTimeout == "Failed to get transaction: timeout of 10000ms exceeded"

MsgFailed == "Transaction failed: fail"

MsgCompletionTimeout == "Transaction completion timeout"

\* error.message.includes('timeout')
IncludesTimeout(message) == message \in {MsgNetworkTimeout, MsgCompletionTimeout}

\* catch (error) of waitForTransactionCompletion: the timeout result, or a rethrow.
WaitCaught(transactionHash, message) ==
    IF IncludesTimeout(message)
    THEN [completed |-> FALSE, transactionHash |-> transactionHash, status |-> "timeout",
          message |-> "Transaction confirmation timeout"]
    ELSE [threw |-> TRUE, message |-> message]

\* History: the request returns or throws now.
Return(q, result) == Answer([q EXCEPT !.loc = @ @@ [returnedAt |-> now]], result)

\* The body of the polling loop after getTransaction returned transaction.
WaitOn(q, transaction) ==
    IF transaction.status = "success"
    THEN Return(q, [completed |-> TRUE, transactionHash |-> q.args.transactionHash,
                    status |-> transaction.status, blockNumber |-> transaction.blockNumber,
                    timestamp |-> now])
    ELSE IF transaction.status = "fail"
    THEN Return(q, WaitCaught(q.args.transactionHash, MsgFailed))
    ELSE [q EXCEPT !.pc = "w_sleep", !.loc = [@ EXCEPT !.wake = now + (PollMs \div 1000)]]

\* while (Date.now() - startTime < timeoutMs): past the deadline the timeout is
\* thrown and caught; otherwise getTransaction starts and reads verification:<hash>.
WaitPoll(r) ==
    /\ reqs[r].pc = "w_check"
    /\ LET q0 == reqs[r]
           t == q0.args.transactionHash
           q == [q0 EXCEPT !.loc = [@ EXCEPT !.atPoll = chain[t], !.polls = @ + 1]]
           cachedVerification == getCachedVerification(t)
       IN Step(r,
            IF ~((now - q0.loc.startTime) * 1000 < q0.args.timeoutMs)
            THEN Return(q0, WaitCaught(t, MsgCompletionTimeout))
            ELSE IF cachedVerification # Null
            THEN WaitOn([q EXCEPT !.loc = [@ EXCEPT !.got = cachedVerification]],
                        cachedVerification)
            ELSE [q EXCEPT !.pc = "w_net"])
    /\ UNCHANGED <<now, cache, connected, chain, calls, ticks>>

\* networkProvider.getTransaction answers or throws; nothing found is an error
\* of getTransaction, and every error of getTransaction leaves the loop.
WaitNet(r) ==
    /\ reqs[r].pc = "w_net"
    /\ LET q == Called(reqs[r])
           t == q.args.transactionHash
       IN \E transaction \in LookupOutcomes(t) \cup {ThrewTimeout} :
            LET g == [q EXCEPT !.loc = [@ EXCEPT !.got = transaction]] IN
            Step(r,
              IF transaction = Null THEN Return(g, WaitCaught(t, MsgNotFound))
              ELSE IF transaction = Threw THEN Return(g, WaitCaught(t, MsgNetwork))
              ELSE IF transaction = ThrewTimeout THEN Return(g, WaitCaught(t, MsgNetworkTimeout))
              ELSE [g EXCEPT !.pc = "w_cache",
                             !.loc = [@ EXCEPT !.got =
                                 [transactionHash |-> t,
                                  blockNumber |-> transaction.blockNonce,
                                  blockTimestamp |-> transaction.timestamp * 1000,
                                  status |-> transaction.status,
                                  explorerUrl |-> getExplorerUrl(t)]]])
    /\ UNCHANGED <<now, cache, connected, chain, calls, ticks>>

\* cacheVerification(transactionHash, result) takes effect and getTransaction returns.
WaitCache(r) ==
    /\ reqs[r].pc = "w_cache"
    /\ LET q == Wrote(reqs[r], Key("verification", reqs[r].args.transactionHash))
       IN /\ cache' = cacheVerification(cache, q.args.transactionHash, q.loc.got)
          /\ Step(r, WaitOn(q, q.loc.got))
    /\ UNCHANGED <<now, connected, chain, calls, ticks>>

\* The 2000 ms timer has fired.
WaitWake(r) ==
    /\ reqs[r].pc = "w_sleep"
    /\ now >= reqs[r].loc.wake
    /\ Step(r, [reqs[r] EXCEPT !.pc = "w_check"])
    /\ UNCHANGED <<now, cache, connected, chain, calls, ticks>>

\* A second passes.
WaitTick ==
    /\ now < MaxSeconds
    /\ now' = now + 1
    /\ UNCHANGED <<cache, connected, chain, reqs, last, calls, ticks>>

WaitInit ==
    /\ now = 0
    /\ cache = [k \in Keys |-> NoEntry]
    /\ connected = TRUE
    /\ chain = [t \in TxHashes |-> NotOnNetwork]
    /\ \E t \in TxHashes, timeoutMs \in TimeoutsMs :
          reqs = [r \in Slots |->
                    IF r = "r1"
                    THEN Begin("wait", "w_check",
                               [transactionHash |-> t, timeoutMs |-> timeoutMs],
                               [startTime |-> 0, wake |-> 0, polls |-> 0,
                                atPoll |-> Null, got |-> Null])
                    ELSE Idle]
    /\ last = Idle
    /\ calls = 1
    /\ ticks = 0

WaitNext ==
    \/ \E r \in Slots : WaitPoll(r)
    \/ \E r \in Slots : WaitNet(r)
    \/ \E r \in Slots : WaitCache(r)
    \/ \E r \in Slots : WaitWake(r)
    \/ WaitTick
    \/ \E t \in TxHashes : NetAccept(t)
    \/ \E t \in TxHashes : NetExecute(t)

WaitSpec == WaitInit /\ [][WaitNext]_vars

----------------------------------------------------------------------------
(* WebhookService.sendWebhook.  One delivery per behaviour: Init draws      *)
(* config.webhook.retryAttempts, every POST succeeds or fails, and every    *)
(* retry timer draws its jitter.                                            *)

MaxRetryAttempts == 8

BaseDelay == 1000

MaxDelay == 30000

\* Math.random(), in thousandths: the least and the greatest value.
Randoms == {0, 999}

\* calculateRetryDelay: Math.floor(delay + Math.random() * 0.1 * delay) with
\* delay = Math.min(1000 * 2^(attempt - 1), 30000).
calculateRetryDelay(attempt, random) ==
    LET exp == BaseDelay * 2 ^ (attempt - 1)
        delay == IF exp < MaxDelay THEN exp ELSE MaxDelay
    IN delay + (random * delay) \div 10000

\* Variant: the last attempt is retried once more.
ShouldRetry_Inclusive(attempt, retryAttempts) == attempt <= retryAttempts

\* if (attempt < config.webhook.retryAttempts)
ShouldRetry(attempt, retryAttempts) == attempt < retryAttempts

\* axios.post settles: a 2xx answer ends the delivery; any other answer, a
\* timeout or a connection error is caught, and a retry is scheduled or the
\* delivery is given up.  The first call's promise resolves to the caller.
HookPost(r) ==
    /\ reqs[r].pc = "h_post"
    /\ \E ok \in BOOLEAN :
         LET q0 == Called(reqs[r])
             attempt == q0.loc.attempt
             q == [q0 EXCEPT !.loc = [@ EXCEPT !.posts = Append(@, attempt),
                                               !.returned = IF attempt = 1
                                                            THEN [value |-> ok] ELSE @]]
         IN IF ok
            THEN Step(r, Answer(q, [delivered |-> TRUE]))
            ELSE IF ShouldRetry(attempt, q.args.retryAttempts)
            THEN \E random \in Randoms :
                   Step(r, [q EXCEPT !.pc = "h_timer",
                                     !.loc = [@ EXCEPT !.delays =
                                         Append(@, calculateRetryDelay(attempt, random))]])
            ELSE Step(r, Answer(q, [delivered |-> FALSE]))
    /\ UNCHANGED <<now, cache, connected, chain, calls, ticks>>

\* The retry timer fires: sendWebhook(url, data, attempt + 1) posts again.
HookRetry(r) ==
    /\ reqs[r].pc = "h_timer"
    /\ LET q == reqs[r]
       IN /\ now' = now + q.loc.delays[Len(q.loc.delays)]
          /\ Step(r, [q EXCEPT !.pc = "h_post", !.loc = [@ EXCEPT !.attempt = @ + 1]])
    /\ UNCHANGED <<cache, connected, chain, calls, ticks>>

\* sendWebhook(url, data) has been called and its first POST is in flight.
HookInit ==
    /\ now = 0
    /\ cache = [k \in Keys |-> NoEntry]
    /\ connected = TRUE
    /\ chain = [t \in TxHashes |-> NotOnNetwork]
    /\ \E retryAttempts \in 1..MaxRetryAttempts :
          reqs = [r \in Slots |->
                    IF r = "r1"
                    THEN Begin("webhook", "h_post", [retryAttempts |-> retryAttempts],
                               [attempt |-> 1, posts |-> <<>>, delays |-> <<>>,
                                returned |-> Null])
                    ELSE Idle]
    /\ last = Idle
    /\ calls = 1
    /\ ticks = 0

HookNext ==
    \/ \E r \in Slots : HookPost(r)
    \/ \E r \in Slots : HookRetry(r)

HookSpec == HookInit /\ [][HookNext]_vars

----------------------------------------------------------------------------
(* The paths that lead to a webhook POST, with the URL checks on each.  One  *)
(* request per behaviour: Init draws NODE_ENV, the route and the URL.  A     *)
(* hostname is the sequence of its dot-separated labels.                     *)

Envs == {"production", "development"}

Protocols == {"https:", "http:"}

Hostnames ==
    {<<"hooks", "example", "com">>, <<"localhost">>, <<"127", "0", "0", "1">>,
     <<"10", "0", "0", "5">>, <<"172", "16", "0", "1">>, <<"192", "168", "1", "1">>}

\* The routes whose handler sends a webhook to a URL of the request:
\* POST /timestamp (body.options.callbackUrl), POST /verify/file and
\* POST /verify/bulk-file (body.callbackUrl), POST /timestamp/webhook/test (body.url).
WebhookRoutes == {"timestamp", "verify_file", "verify_bulk_file", "webhook_test"}

\* hostname.startsWith(prefix + "."), for a prefix of one or two labels.
StartsWithLabels(hostname, prefix) ==
    /\ Len(hostname) > Len(prefix)
    /\ \A i \in 1..Len(prefix) : hostname[i] = prefix[i]

\* The middleware validateWebhookUrl of validation.middleware.js: TRUE when it
\* calls next() for this URL.  No route of the service mounts it.
validateWebhookUrlMiddleware(env, url) ==
    /\ ~(url.protocol # "https:" /\ env = "production")
    /\ env = "production"
          => ~ \/ url.hostname = <<"localhost">>
               \/ url.hostname = <<"127", "0", "0", "1">>
               \/ StartsWithLabels(url.hostname, <<"192", "168">>)
               \/ StartsWithLabels(url.hostname, <<"10">>)
               \/ StartsWithLabels(url.hostname, <<"172">>)

\* WebhookService.validateWebhookUrl, called by testWebhook only.
validateWebhookUrl(env, url) ==
    /\ ~(env = "production" /\ url.protocol # "https:")
    /\ ~(env = "development" /\ url.protocol \notin {"http:", "https:"})

\* Joi.string().uri(): any absolute URI, whatever its scheme and host.
JoiUri(url) == url.protocol \in Protocols /\ Len(url.hostname) > 0

\* The route's middleware and its handler up to the point where the webhook
\* is handed to sendWebhook, or the request is answered without one.
UrlRoute(r) ==
    /\ reqs[r].pc = "u_route"
    /\ LET q == reqs[r]
           a == q.args
           accepted ==
               CASE a.route = "timestamp" -> JoiUri(a.url)
                 [] a.route = "webhook_test" -> JoiUri(a.url) /\ validateWebhookUrl(a.env, a.url)
                 [] OTHER -> TRUE
       IN Step(r,
            IF accepted THEN [q EXCEPT !.pc = "u_send"]
            ELSE Answer(q, ResponseError("Webhook test failed", 400,
                                         [name |-> "WEBHOOK_TEST_FAILED"], NoDetails)))
    /\ UNCHANGED <<now, cache, connected, chain, calls, ticks>>

\* sendWebhook(url, ...) issues axios.post(url, payload).
UrlSend(r) ==
    /\ reqs[r].pc = "u_send"
    /\ LET q == Called(reqs[r])
       IN Step(r, Answer([q EXCEPT !.loc = [posted |-> q.args.url]],
                         ResponseSuccess([sent |-> TRUE])))
    /\ UNCHANGED <<now, cache, connected, chain, calls, ticks>>

UrlInit ==
    /\ now = 0
    /\ cache = [k \in Keys |-> NoEntry]
    /\ connected = TRUE
    /\ chain = [t \in TxHashes |-> NotOnNetwork]
    /\ \E env \in Envs, route \in WebhookRoutes, protocol \in Protocols, hostname \in Hostnames :
          reqs = [r \in Slots |->
                    IF r = "r1"
                    THEN Begin("callback", "u_route",
                               [env |-> env, route |-> route,
                                url |-> [protocol |-> protocol, hostname |-> hostname]],
                               Null)
                    ELSE Idle]
    /\ last = Idle
    /\ calls = 1
    /\ ticks = 0

UrlNext ==
    \/ \E r \in Slots : UrlRoute(r)
    \/ \E r \in Slots : UrlSend(r)

UrlSpec == UrlInit /\ [][UrlNext]_vars

----------------------------------------------------------------------------
(* The API key check in front of the routes.  One request per behaviour:    *)
(* Init draws the route, the X-API-Key header and the configured key.       *)

\* The routes of Application.initializeRoutes and of the API router.
AppRoutes ==
    {"GET /health", "GET /", "GET /api/v1/", "GET /api/v1/health", "GET /api/v1/status",
     "GET /api/v1/docs", "GET /api/v1/postman", "POST /api/v1/timestamp",
     "GET /api/v1/verify/:hash", "POST /api/v1/prepare-transaction",
     "POST /api/v1/register-transaction", "GET /api/v1/transaction/:txHash/status"}

HealthRoutes == {"GET /health", "GET /api/v1/health"}

\* The routes under a router.use(..., authMiddleware.requireApiKey, ...) mount.
RequiresApiKey(route) ==
    route \in {"POST /api/v1/timestamp", "GET /api/v1/verify/:hash",
               "POST /api/v1/prepare-transaction", "POST /api/v1/register-transaction",
               "GET /api/v1/transaction/:txHash/status"}

\* config.server.apiKey
ApiKeys == {"default-api-key", "k1"}

\* req.headers['x-api-key']: absent, empty or a key.
NoHeader == [present |-> FALSE, value |-> ""]

Header(value) == [present |-> TRUE, value |-> value]

ApiKeyHeaders == {NoHeader, Header(""), Header("default-api-key"), Header("k1")}

\* authenticateApiKey: the 401 it answers, or Null when it calls next().
authenticateApiKey(apiKey, configured) ==
    IF ~apiKey.present \/ apiKey.value = ""
    THEN ResponseError("API key is required", 401, [name |-> "AUTH_ERROR"], NoDetails)
    ELSE IF apiKey.value # configured
    THEN ResponseError("Invalid API key", 401, [name |-> "AUTH_ERROR"], NoDetails)
    ELSE Null

\* The middleware chain of the route up to its handler.
AuthRoute(r) ==
    /\ reqs[r].pc = "a_route"
    /\ LET q == reqs[r]
           a == q.args
           denied == IF RequiresApiKey(a.route)
                     THEN authenticateApiKey(a.apiKey, a.configured)
                     ELSE Null
       IN Step(r, IF denied # Null THEN Answer(q, denied) ELSE [q EXCEPT !.pc = "a_handler"])
    /\ UNCHANGED <<now, cache, connected, chain, calls, ticks>>

\* The route's handler is invoked and answers.
AuthHandler(r) ==
    /\ reqs[r].pc = "a_handler"
    /\ LET q == reqs[r]
       IN Step(r, Answer([q EXCEPT !.loc = [invoked |-> TRUE]],
                         ResponseSuccess([route |-> q.args.route])))
    /\ UNCHANGED <<now, cache, connected, chain, calls, ticks>>

AuthInit ==
    /\ now = 0
    /\ cache = [k \in Keys |-> NoEntry]
    /\ connected = TRUE
    /\ chain = [t \in TxHashes |-> NotOnNetwork]
    /\ \E route \in AppRoutes, apiKey \in ApiKeyHeaders, configured \in ApiKeys :
          reqs = [r \in Slots |->
                    IF r = "r1"
                    THEN Begin("api", "a_route",
                               [route |-> route, apiKey |-> apiKey, configured |-> configured],
                               [invoked |-> FALSE])
                    ELSE Idle]
    /\ last = Idle
    /\ calls = 1
    /\ ticks = 0

AuthNext ==
    \/ \E r \in Slots : AuthRoute(r)
    \/ \E r \in Slots : AuthHandler(r)

AuthSpec == AuthInit /\ [][AuthNext]_vars

----------------------------------------------------------------------------
(* Prepare and register while the Redis connection comes and goes.  The     *)
(* client's 'error' and 'end' events clear CacheService.connected, 'ready'  *)
(* sets it; the keys in Redis are not affected by the connection.           *)

\* this.client.on('error' | 'end'): connected = false.
CacheDown ==
    /\ connected
    /\ ticks < MaxTicks
    /\ ticks' = ticks + 1
    /\ connected' = FALSE
    /\ UNCHANGED <<now, cache, chain, reqs, last, calls>>

\* this.client.on('ready'): connected = true.
CacheUp ==
    /\ ~connected
    /\ ticks < MaxTicks
    /\ ticks' = ticks + 1
    /\ connected' = TRUE
    /\ UNCHANGED <<now, cache, chain, reqs, last, calls>>

OutageNext ==
    \/ \E r \in Slots, u \in Users, d \in Data : PrepareCall(r, u, d)
    \/ \E r \in Slots : PrepareNonce(r)
    \/ \E r \in Slots : PrepareStore(r)
    \/ \E r \in Slots, t \in TxHashes, h \in Hashes, u \in Users : RegisterCall(r, t, h, u)
    \/ \E r \in Slots : RegisterLookup(r)
    \/ \E r \in Slots : RegisterCache(r)
    \/ \E r \in Slots : RegisterDelete(r)
    \/ \E t \in TxHashes : NetAccept(t)
    \/ \E t \in TxHashes : NetExecute(t)
    \/ CacheDown
    \/ CacheUp

OutageSpec == Init /\ [][OutageNext]_vars

----------------------------------------------------------------------------
(* HashUtils.sha256 of an object input.  A JSON object is the sequence of   *)
(* its properties in insertion order; one request per behaviour: Init draws *)
(* the data of the body, every object of at most MaxProps properties in all *)
(* (nested objects included).                                                *)

MaxProps == 4

PropertyNames == {"a", "b"}

Primitives == {Str(<<"1">>), Str(<<"2">>)}

Obj(props) == [kind |-> "object", props |-> props]

Prop(key, value) == [key |-> key, value |-> value]

RECURSIVE CountProps(_)
\* The number of properties of a value, nested ones included.
CountProps(v) ==
    IF v.kind # "object" THEN 0
    ELSE IF Len(v.props) = 0 THEN 0
    ELSE 1 + CountProps(v.props[1].value) + CountProps(Obj(Tail(v.props)))

RECURSIVE PropSeqs(_, _)
\* The property sequences with keys from names, no key twice, and at most n
\* properties in all.
PropSeqs(n, names) ==
    {<<>>} \cup
    IF n = 0 THEN {}
    ELSE UNION {
           UNION {
             {<<Prop(k, v)>> \o rest : rest \in PropSeqs(n - 1 - CountProps(v), names \ {k})}
             : v \in Primitives \cup {Obj(s) : s \in PropSeqs(n - 1, PropertyNames)}}
           : k \in names}

Objects == {Obj(s) : s \in PropSeqs(MaxProps, PropertyNames)}

\* Object.keys(data): the own keys in insertion order.
ObjectKeys(data) == [i \in 1..Len(data.props) |-> data.props[i].key]

\* The order of Array.prototype.sort() on these names.
NameRank(k) == IF k = "a" THEN 1 ELSE 2

RECURSIVE SortNames(_)
SortNames(S) ==
    IF S = {} THEN <<>>
    ELSE LET first == CHOOSE k \in S : \A j \in S : NameRank(k) <= NameRank(j)
         IN <<first>> \o SortNames(S \ {first})

\* Object.keys(data).sort()
SortedKeys(data) == SortNames({data.props[i].key : i \in 1..Len(data.props)})

HasKey(value, k) == \E i \in 1..Len(value.props) : value.props[i].key = k

Get(value, k) == value.props[CHOOSE i \in 1..Len(value.props) : value.props[i].key = k].value

Quote(chars) == <<"\"">> \o chars \o <<"\"">>

RECURSIVE JSONStringify(_, _)
RECURSIVE SerializeProps(_, _, _, _)
\* The members of an object for the names of K from position i on: a name the
\* object lacks is skipped, the others are written in the order of K.
SerializeProps(value, K, i, propertyList) ==
    IF i > Len(K) THEN <<>>
    ELSE IF ~HasKey(value, K[i]) THEN SerializeProps(value, K, i + 1, propertyList)
    ELSE LET member == Quote(<<K[i]>>) \o <<":">> \o JSONStringify(Get(value, K[i]), propertyList)
             others == SerializeProps(value, K, i + 1, propertyList)
         IN IF Len(others) = 0 THEN member ELSE member \o <<",">> \o others

\* JSON.stringify(value, propertyList) with an array as replacer: at every
\* depth the members written are those named in propertyList, in its order.
JSONStringify(value, propertyList) ==
    IF value.kind = "string" THEN Quote(value.chars)
    ELSE <<"{">> \o SerializeProps(value, propertyList, 1, propertyList) \o <<"}">>

\* crypto.createHash('sha256').update(s).digest('hex'), taken to be collision free.
Digest(dataString) == [sha256 |-> dataString]

\* Variant: the keys are taken in insertion order.
DataString_Unsorted(data) == JSONStringify(data, ObjectKeys(data))

\* The string that HashUtils.sha256 hashes for an object input.
DataString(data) == JSONStringify(data, SortedKeys(data))

\* HashUtils.sha256(data) for typeof data === 'object'.
sha256Object(data) == Digest(DataString(data))

\* The handler computes the hash of the body's data.
HashCompute(r) ==
    /\ reqs[r].pc = "h_hash"
    /\ LET q == reqs[r]
       IN Step(r, Answer([q EXCEPT !.loc = [dataHash |-> sha256Object(q.args.data)]],
                         ResponseSuccess([dataHash |-> sha256Object(q.args.data)])))
    /\ UNCHANGED <<now, cache, connected, chain, calls, ticks>>

HashInit ==
    /\ now = 0
    /\ cache = [k \in Keys |-> NoEntry]
    /\ connected = TRUE
    /\ chain = [t \in TxHashes |-> NotOnNetwork]
    /\ \E data \in Objects :
          reqs = [r \in Slots |->
                    IF r = "r1" THEN Begin("hash", "h_hash", [data |-> data], Null) ELSE Idle]
    /\ last = Idle
    /\ calls = 1
    /\ ticks = 0

HashNext == \E r \in Slots : HashCompute(r)

HashSpec == HashInit /\ [][HashNext]_vars

----------------------------------------------------------------------------
(* Two users and one staging record.  The behaviours start when the prepare *)
(* of erd1alice for d1 has been answered; then erd1bob prepares the same    *)
(* data and erd1alice registers, in any interleaving, within the 300 s TTL. *)

\* The staging record of the first prepare.
RacePrepared ==
    [transaction |-> [nonce |-> 0, value |-> "0", receiver |-> "erd1alice",
                      sender |-> "erd1alice", data |-> [dataHash |-> sha256("d1")],
                      version |-> 1],
     dataHash |-> sha256("d1"), userAddress |-> "erd1alice", preparedAt |-> 0]

RaceInit ==
    /\ now = 0
    /\ connected = TRUE
    /\ cache = storePreparedTransaction([k \in Keys |-> NoEntry], sha256("d1"),
                                        RacePrepared, PreparedTTL)
    /\ chain \in {[t \in TxHashes |-> NotOnNetwork],
                  [t \in TxHashes |-> [status |-> "success", blockNonce |-> BlockNonceOf(t),
                                       timestamp |-> 0]]}
    /\ reqs = [r \in Slots |-> Idle]
    /\ last = [op |-> "prepare", pc |-> "done",
               args |-> [userAddress |-> "erd1alice", data |-> "d1"],
               loc |-> [dataHash |-> sha256("d1"), cachedTimestamp |-> Null,
                        preparedTx |-> RacePrepared, replaced |-> Null],
               net |-> 1, writes |-> {Key("prepared", sha256("d1"))},
               response |-> ResponseSuccess([success |-> TRUE,
                                             transaction |-> RacePrepared.transaction,
                                             dataHash |-> sha256("d1")])]
    /\ calls = 1
    /\ ticks = 0

RaceNext ==
    \/ \E r \in Slots, d \in Data : PrepareCall(r, "erd1bob", d)
    \/ \E r \in Slots : PrepareNonce(r)
    \/ \E r \in Slots : PrepareStore(r)
    \/ \E r \in Slots, t \in TxHashes, h \in Hashes : RegisterCall(r, t, h, "erd1alice")
    \/ \E r \in Slots : RegisterLookup(r)
    \/ \E r \in Slots : RegisterCache(r)
    \/ \E r \in Slots : RegisterDelete(r)
    \/ \E t \in TxHashes : NetAccept(t)
    \/ \E t \in TxHashes : NetExecute(t)

RaceSpec == RaceInit /\ [][RaceNext]_vars

----------------------------------------------------------------------------
(* Application.shutdown() while a webhook delivery is under way.  Slot r1   *)
(* holds the delivery and slot r2 the shutdown: it is started by the        *)
(* SIGTERM / SIGINT handler, which calls process.exit as soon as it has      *)
(* resolved, or by a caller of the exported application, which does not.    *)

\* The process runs until process.exit.
ProcessAlive == reqs["r2"].pc # "exited"

\* webhookService.clearRetryQueue(): this.retryQueue.clear().
clearRetryQueue(q) ==
    IF Has(q.loc, "retryQueue") THEN [q EXCEPT !.loc.retryQueue = {}] ELSE q

ShutPost(r) == ProcessAlive /\ HookPost(r)

ShutRetry(r) == ProcessAlive /\ HookRetry(r)

\* application.shutdown() is entered: isShuttingDown = true, server.close(...).
ShutdownCall(bySignal) ==
    /\ reqs["r2"].pc = "idle"
    /\ reqs' = [reqs EXCEPT !["r2"] =
                  Begin("shutdown", "sd_server", [bySignal |-> bySignal], Null)]
    /\ UNCHANGED <<now, cache, connected, chain, last, calls, ticks>>

\* The HTTP server has closed; cacheService.close() quits the Redis client.
ShutdownClose ==
    /\ reqs["r2"].pc = "sd_server"
    /\ connected' = FALSE
    /\ reqs' = [reqs EXCEPT !["r2"].pc = "sd_webhooks"]
    /\ UNCHANGED <<now, cache, chain, last, calls, ticks>>

\* webhookService.shutdown() clears the retry queue and returns; shutdown()
\* resolves, and the signal handler exits the process.
ShutdownWebhooks ==
    /\ reqs["r2"].pc = "sd_webhooks"
    /\ reqs' = [reqs EXCEPT
                  !["r1"] = clearRetryQueue(@),
                  !["r2"].pc = IF reqs["r2"].args.bySignal THEN "exited" ELSE "sd_returned"]
    /\ UNCHANGED <<now, cache, connected, chain, last, calls, ticks>>

\* sendWebhook(url, data) has been called and its first POST is in flight; the
\* retry queue of the service is empty, as nothing ever adds to it.
ShutInit ==
    /\ now = 0
    /\ cache = [k \in Keys |-> NoEntry]
    /\ connected = TRUE
    /\ chain = [t \in TxHashes |-> NotOnNetwork]
    /\ \E retryAttempts \in 1..MaxRetryAttempts :
          reqs = [r \in Slots |->
                    IF r = "r1"
                    THEN Begin("webhook", "h_post", [retryAttempts |-> retryAttempts],
                               [attempt |-> 1, posts |-> <<>>, delays |-> <<>>,
                                returned |-> Null, retryQueue |-> {}])
                    ELSE Idle]
    /\ last = Idle
    /\ calls = 1
    /\ ticks = 0

ShutNext ==
    \/ ShutPost("r1")
    \/ ShutRetry("r1")
    \/ \E bySignal \in BOOLEAN : ShutdownCall(bySignal)
    \/ ShutdownClose
    \/ ShutdownWebhooks

ShutSpec == ShutInit /\ [][ShutNext]_vars

----------------------------------------------------------------------------
(* Properties *)

Entry(ns, id) == cache[Key(ns, id)]

\* The value under a key, Null when the key is absent.
Stored(ns, id) == Entry(ns, id).val

\* A record that registration built from a transaction found on the network.
IsFound(rec) == Has(rec, "transactionHash") /\ Has(rec, "blockNumber")

\* A record that registration built without finding the transaction.
IsPending(rec) ==
    Has(rec, "transactionHash") /\ ~Has(rec, "blockNumber") /\ rec.status = "pending"

\* C1: a prepare that finds a record under timestamp:<hash> answers 409 Conflict,
\* has made no network call and has written no cache key.
C1_PrepareRejectsTimestamped ==
    (last.op = "prepare" /\ last.loc.cachedTimestamp # Null)
        => /\ last.response.http = 409
           /\ last.response.error.message = "Data already timestamped"
           /\ last.net = 0
           /\ last.writes = {}

\* A prepare was rejected because of a pending record left by a registration.
C1_Witness ==
    /\ last.op = "prepare"
    /\ last.response.http = 409
    /\ IsPending(last.loc.cachedTimestamp)

\* C2: a register that finds no live staging record answers 404 NotFound, has
\* made no network lookup and has written no cache key; a staging record lives
\* at most 300 seconds and a key that is present has not expired.
C2_RegisterWithoutPreparedIsNotFound ==
    /\ (last.op = "register" /\ last.loc.preparedTx = Null)
          => /\ last.response.http = 404
             /\ last.net = 0
             /\ last.writes = {}
    /\ \A h \in Hashes :
          Entry("prepared", h) # NoEntry
            => /\ now < Entry("prepared", h).exp
               /\ Entry("prepared", h).exp <= now + 300

\* A register was answered 404 after the staging record stored at time 0 expired.
C2_Witness ==
    /\ last.op = "register"
    /\ last.response.http = 404
    /\ now = 300
    /\ \A h \in Hashes : Entry("timestamp", h) = NoEntry

\* C3: a register whose userAddress differs from the staging record's answers
\* 403 Forbidden, has made no network lookup and has written no cache key.
C3_RegisterOtherUserIsForbidden ==
    (/\ last.op = "register"
     /\ last.loc.preparedTx # Null
     /\ last.loc.preparedTx.userAddress # last.args.userAddress)
        => /\ last.response.http = 403
           /\ last.net = 0
           /\ last.writes = {}

\* A register by another user was refused and the staging record is still in place.
C3_Witness ==
    /\ last.op = "register"
    /\ last.response.http = 403
    /\ Stored("prepared", last.args.dataHash) = last.loc.preparedTx
    /\ Stored("timestamp", last.args.dataHash) = Null


\* The step in which a handler answers; the answered request is last'.
Answers ==
    \/ \E r \in Slots : reqs[r].pc # "idle" /\ reqs'[r].pc = "idle"
    \/ calls' # calls /\ reqs' = reqs

\* A register that passed its checks and whose lookup found nothing or threw
\* has made exactly one lookup, answers 200 with status pending, has stored a
\* pending record without block reference under timestamp:<dataHash> and has left
\* prepared:<dataHash> as it was.
C4_RegisterPendingStep ==
    (Answers /\ last'.op = "register" /\ Has(last'.loc, "found") /\ ~last'.loc.found)
        => LET a == last'.args IN
           /\ last'.net = 1
           /\ last'.response.http = 200
           /\ last'.response.success
           /\ last'.response.data.status = "pending"
           /\ IsPending(cache'[Key("timestamp", a.dataHash)].val)
           /\ cache'[Key("timestamp", a.dataHash)].val.transactionHash = a.transactionHash
           /\ cache'[Key("timestamp", a.dataHash)].exp = now + 86400
           /\ cache'[Key("prepared", a.dataHash)] = cache[Key("prepared", a.dataHash)]
           /\ last'.writes = {Key("timestamp", a.dataHash)}

\* C4: a register that passed its NotFound/Forbidden checks and whose lookup found
\* nothing or threw makes one lookup, answers 200 pending, stores a pending record
\* without block reference and keeps prepared:<dataHash>, in every answering step.
C4_RegisterPending == [][C4_RegisterPendingStep]_vars

\* A register was answered pending although the network holds the transaction
\* (the lookup threw); the pending record and the staging record are both stored.
C4_Witness ==
    /\ last.op = "register"
    /\ last.response.http = 200
    /\ last.response.data.status = "pending"
    /\ chain[last.args.transactionHash] # NotOnNetwork
    /\ IsPending(Stored("timestamp", last.args.dataHash))
    /\ Stored("prepared", last.args.dataHash) # Null

\* C5 (as claimed): a register whose lookup found the transaction stores and
\* answers a record with status confirmed, block number, block timestamp and
\* explorer link, and has deleted prepared:<dataHash>.
C5_RegisterFoundIsConfirmed ==
    (last.op = "register" /\ Has(last.loc, "found") /\ last.loc.found)
        => /\ last.response.http = 200
           /\ last.response.data.status = "confirmed"
           /\ last.loc.result.status = "confirmed"
           /\ \A f \in {"blockNumber", "blockTimestamp", "explorerUrl"} :
                 Has(last.loc.result, f) /\ Has(last.response.data, f)
           /\ Key("prepared", last.args.dataHash) \in last.writes

\* A record built from an executed transaction found on the network is not
\* replaced by a pending record in this step.
C6_NoBackwardStep ==
    \A h \in Hashes :
        (IsFound(Stored("timestamp", h)) /\ Stored("timestamp", h).status = "success")
            => ~IsPending(cache'[Key("timestamp", h)].val)

\* C6 (as claimed): no step, of any interleaving of prepare and register calls,
\* replaces a confirmed record by a pending one.
C6_StatusNeverMovesBackward == [][C6_NoBackwardStep]_vars

\* The network executed the transaction of this record in an earlier clock period.
ReportedLongAgo(rec) ==
    /\ chain[rec.transactionHash] # NotOnNetwork
    /\ chain[rec.transactionHash].status \in {"success", "fail"}
    /\ chain[rec.transactionHash].timestamp < now

\* A pending record whose transaction the network reported as executed long ago
\* is not dropped by expiry in this step.
C7_PendingNotDroppedStep ==
    \A h \in Hashes :
        (IsPending(Stored("timestamp", h)) /\ ReportedLongAgo(Stored("timestamp", h)))
            => cache'[Key("timestamp", h)] # NoEntry

\* C7 (as claimed): no step drops such a record from the cache while it is still
\* pending; it has become confirmed or failed before its entry expires.
C7_PendingIsReconciled == [][C7_PendingNotDroppedStep]_vars

\* C8 (as claimed): what GET /verify/:hash answers from verification:<h> agrees
\* with an uncached lookup; in particular no cached result says verified false
\* while a registration's record is stored under timestamp:<h>.
C8_VerificationCacheIsTransparent ==
    \A h \in Hashes :
        (Stored("verification", h) # Null /\ Has(Stored("timestamp", h), "transactionHash"))
            => Stored("verification", h).verified = verifyTimestamp(h).verified

\* C9: GET /verify/:hash answers from verification:<hash> when it is there without
\* reading timestamp:<hash>; when neither key is there it answers 200 with verified
\* false and source "blockchain"; it never calls the network.
C9_VerifyCacheFirstNoRaise ==
    (last.op = "verify")
        => /\ last.net = 0
           /\ last.response.http = 200
           /\ last.loc.cachedResult # Null
                => /\ ~Has(last.loc, "verificationResult")
                   /\ last.response.data = last.loc.cachedResult @@ [cached |-> TRUE]
           /\ (last.loc.cachedResult = Null /\ last.loc.verificationResult.timestamp = Null)
                => /\ last.response.success
                   /\ last.response.data.verified = FALSE
                   /\ last.response.data.source = "blockchain"
                   /\ last.response.data.timestamp = Null

\* A verify found neither key and was answered verified false.
C9_Witness ==
    /\ last.op = "verify"
    /\ last.loc.cachedResult = Null
    /\ last.response.http = 200
    /\ last.response.data.verified = FALSE
    /\ last.response.data.cached = FALSE

\* C10 (as claimed): every value under timestamp:<hash> carries the DataHash, a
\* transaction hash and a status in {pending, confirmed, failed}, and has a block
\* reference exactly when its status is confirmed.
C10_TimestampRecordsWellFormed ==
    \A h \in Hashes :
        LET rec == Stored("timestamp", h) IN
        rec # Null
          => /\ Has(rec, "dataHash") /\ rec.dataHash = h
             /\ Has(rec, "transactionHash")
             /\ Has(rec, "status") /\ rec.status \in {"pending", "confirmed", "failed"}
             /\ Has(rec, "blockNumber") <=> rec.status = "confirmed"

\* A prepare that read no record under timestamp:<hash> and got the account nonce
\* answers 200 in the step in which its SETEX takes effect; after the step
\* prepared:<hash> holds exactly this call's record for 300 seconds, whatever
\* the key held before.
C11_LastWriteWinsStep ==
    (Answers /\ last'.op = "prepare" /\ Has(last'.loc, "preparedTx"))
        => LET h == last'.loc.dataHash IN
           /\ last'.loc.cachedTimestamp = Null
           /\ last'.response.http = 200
           /\ last'.response.data.transaction = last'.loc.preparedTx.transaction
           /\ cache'[Key("prepared", h)] = [val |-> last'.loc.preparedTx, exp |-> now + 300]
           /\ last'.writes = {Key("prepared", h)}
           /\ \A k \in Keys \ {Key("prepared", h)} : cache'[k] = cache[k]

\* C11: two prepare calls for the same data with no record under timestamp:<hash>,
\* interleaved at any suspension point, both answer, and prepared:<hash> holds the
\* record of the call whose write came last.
C11_PrepareLastWriteWins == [][C11_LastWriteWinsStep]_vars

\* Two prepare calls for the same data by different users have both been answered
\* 200; the second write replaced the record of the first.
C11_Witness ==
    /\ last.op = "prepare"
    /\ last.response.http = 200
    /\ last.loc.replaced # Null
    /\ last.loc.replaced.userAddress # last.args.userAddress
    /\ last.loc.replaced.dataHash = last.loc.dataHash
    /\ Stored("prepared", last.loc.dataHash) = last.loc.preparedTx
    /\ Stored("timestamp", last.loc.dataHash) = Null

\* A staging record that is stored and not expired is the same after the step,
\* unless the step deletes it or lets it expire.
C12_NotMutatedStep ==
    \A h \in Hashes :
        (Stored("prepared", h) # Null /\ now < Entry("prepared", h).exp)
            => cache'[Key("prepared", h)] \in {cache[Key("prepared", h)], NoEntry}

\* C12 (as claimed): while an unexpired prepared:<hash> exists no prepare call
\* changes it; its userAddress, nonce and preparedAt stay as first written.
C12_PreparedNeverMutated == [][C12_NotMutatedStep]_vars

\* A register is answered 404 in this step only if a prepare for the same data
\* would not be answered 409: no pending record is stored under timestamp:<hash>.
C13_RePrepareStep ==
    (Answers /\ last'.op = "register" /\ last'.response.http = 404)
        => ~IsPending(getCachedTimestamp(last'.args.dataHash))

\* C13 (as claimed): whenever register fails with NotFound because the staging
\* record expired, a following prepare for the same data is not rejected with
\* Conflict.
C13_RePrepareAfterNotFound == [][C13_RePrepareStep]_vars

\* A well-formed hash: a string of 64 hexadecimal characters.
WellFormedHash(e) ==
    e.kind = "string" /\ Len(e.chars) = 64 /\ \A i \in 1..Len(e.chars) : IsHexChar(e.chars[i])

\* A hashes argument that must be rejected: not a list, empty, more than 50
\* entries, or an entry that is not a well-formed hash.
BadBatch(hashes) ==
    \/ hashes.kind # "array"
    \/ Len(hashes.items) = 0
    \/ Len(hashes.items) > 50
    \/ \E i \in 1..Len(hashes.items) : ~WellFormedHash(hashes.items[i])

\* C14 (as claimed): a batch whose hashes argument is not a list, is empty, has
\* more than 50 entries or holds a malformed entry starts no lookup and is
\* answered 400 VALIDATION_ERROR.
C14_BatchFailFast ==
    /\ \A r \in Slots :
          (reqs[r].op = "batch" /\ BadBatch(reqs[r].args.hashes))
              => reqs[r].pc = "b_validate"
    /\ (last.op = "batch" /\ BadBatch(last.args.hashes))
          => /\ last.response.http = 400
             /\ last.response.error.code.name = "VALIDATION_ERROR"
             /\ last.loc = Null

C16_StatusThreeStates ==
    (last.op = "status" /\ last.loc.cachedVerification = Null)
        => /\ last.response.http = 200
           /\ last.response.success
           /\ last.response.data.status \in {"not_found", "pending", "success", "fail"}
           /\ last.response.data.status \in {"success", "fail"}
                 => /\ chain[last.args.txHash] # NotOnNetwork
                    /\ Has(last.response.data, "blockNumber")

\* The outcomes of a lookup that does not resolve the transaction: nothing
\* found, or an error, with or without a timeout in its message.
Unresolved == {Null, Threw, ThrewTimeout}

\* C17 (as claimed): a waitForCompletion call none of whose polls obtained the
\* transaction returns {completed: false, status: 'timeout'}, does not throw,
\* and returns only when at least timeoutMs have passed since it started.
C17_WaitTimesOutAtDeadline ==
    (last.op = "wait" /\ last.loc.got \in Unresolved)
        => /\ ~Has(last.response, "threw")
           /\ last.response.completed = FALSE
           /\ last.response.status = "timeout"
           /\ (last.loc.returnedAt - last.loc.startTime) * 1000 >= last.args.timeoutMs

\* The network reported this final status when the poll began.
ReportedAtPoll(q, status) == Has(q.loc.atPoll, "status") /\ q.loc.atPoll.status = status

\* C18 (as claimed): the call polls until success, explicit failure or timeout.
\* A poll that began while the network reported success or fail, and whose
\* lookup did not throw, does not put the call to sleep: it returns completed
\* true, or throws for the failed transaction; and a poll that found the
\* transaction not yet on the network does not end the call before the deadline.
C18_WaitPollsUntilFinal ==
    /\ \A r \in Slots :
          (reqs[r].op = "wait" /\ reqs[r].pc = "w_sleep")
              => ~ReportedAtPoll(reqs[r], "success") /\ ~ReportedAtPoll(reqs[r], "fail")
    /\ (last.op = "wait" /\ ReportedAtPoll(last, "success")
                         /\ last.loc.got \notin {Threw, ThrewTimeout})
          => Has(last.response, "completed") /\ last.response.completed
    /\ (last.op = "wait" /\ last.loc.got = Null)
          => (last.loc.returnedAt - last.loc.startTime) * 1000 >= last.args.timeoutMs

\* The delivery is over and every POST failed.
AllFailed == last.op = "webhook" /\ ~last.response.delivered

\* What holds of every delivery whose POSTs all failed: exactly retryAttempts
\* POSTs numbered 1..retryAttempts, one delay between consecutive POSTs, and the
\* first call returned false to its caller.
C19_AttemptsExact ==
    AllFailed
        => /\ last.loc.posts = [k \in 1..last.args.retryAttempts |-> k]
           /\ last.net = last.args.retryAttempts
           /\ Len(last.loc.delays) = last.args.retryAttempts - 1
           /\ last.loc.returned = [value |-> FALSE]

\* C19 (as claimed): when every POST fails there are exactly retryAttempts POSTs
\* and the delays between consecutive POSTs never decrease.
C19_WebhookRetries ==
    /\ C19_AttemptsExact
    /\ AllFailed
          => \A k \in 1..(Len(last.loc.delays) - 1) :
                last.loc.delays[k] <= last.loc.delays[k + 1]

\* C19 (amended): when every POST fails there are exactly retryAttempts POSTs; the
\* delay after attempt k is its exponential part, 1000 * 2^(k-1) capped at 30000,
\* plus a jitter below a tenth of that part; the delays never decrease while the
\* exponential part is below the cap.
C19_WebhookRetriesUpToCap ==
    /\ C19_AttemptsExact
    /\ AllFailed
          => \A k \in 1..Len(last.loc.delays) :
                LET part == IF k >= 6 THEN 30000 ELSE 1000 * 2 ^ (k - 1) IN
                /\ part <= last.loc.delays[k]
                /\ last.loc.delays[k] * 10 < part * 11
                /\ (k <= 5 /\ k < Len(last.loc.delays))
                      => last.loc.delays[k] <= last.loc.delays[k + 1]

\* Eight POSTs failed; the delay before the last one is shorter than the one before.
C19_Witness ==
    /\ AllFailed
    /\ last.args.retryAttempts = 8
    /\ Len(last.loc.posts) = 8
    /\ last.loc.delays[7] < last.loc.delays[6]
    /\ last.loc.delays[1] < last.loc.delays[2]

\* C20 (as claimed): in production no webhook POST is issued to a URL that is
\* not HTTPS or whose hostname is loopback or private (localhost, 127.0.0.1,
\* 10.*, 172.*, 192.168.*), on any route that leads to a webhook send.
C20_NoPostToUnsafeUrl ==
    (last.op = "callback" /\ last.args.env = "production" /\ last.net > 0)
        => /\ last.loc.posted.protocol = "https:"
           /\ last.loc.posted.hostname \notin
                 {<<"localhost">>, <<"127", "0", "0", "1">>}
           /\ last.loc.posted.hostname[1] \notin {"10", "172"}
           /\ ~(last.loc.posted.hostname[1] = "192" /\ last.loc.posted.hostname[2] = "168")

\* C21: a request to a route that is not a health route, with the X-API-Key
\* header missing or different from the configured key, is answered 401 and its
\* handler is not invoked: no cache write, no network call.
C21_NonHealthRequiresApiKey ==
    (/\ last.op = "api"
     /\ last.args.route \notin HealthRoutes
     /\ (~last.args.apiKey.present \/ last.args.apiKey.value # last.args.configured))
    => /\ last.response.http = 401
       /\ ~last.loc.invoked
       /\ last.writes = {} /\ last.net = 0

\* While the cache is unreachable, a prepare that ends with its store command
\* and a register that ends with its read of the staging record answer 503.
C22_OutageStep ==
    (Answers /\ ~connected)
        => /\ (last'.op = "prepare" /\ Has(last'.loc, "preparedTx"))
                 => last'.response.http = 503
           /\ (last'.op = "register" /\ last'.loc.preparedTx = Null)
                 => last'.response.http = 503

\* C22 (as claimed): with the cache store unreachable, prepare does not report
\* success for a transaction it could not stage and register does not report
\* NotFound for a staging record it could not read; both fail with 503.
C22_OutageIsServiceUnavailable == [][C22_OutageStep]_vars

\* C23 (as claimed): the 409 that prepare answers for already-timestamped data
\* carries the error code CONFLICT, and its error details hold the dataHash and
\* the existing record.
C23_ConflictCarriesDetails ==
    (last.op = "prepare" /\ last.response.http = 409)
        => /\ last.response.error.code = [name |-> getErrorCode(409)]
           /\ last.response.error.details =
                 [dataHash |-> last.loc.dataHash,
                  existingTimestamp |-> last.loc.cachedTimestamp]

RECURSIVE Reorderings(_)
\* The values with the same keys and values as v, the properties of every
\* object (nested ones included) inserted in any order.
Reorderings(v) ==
    IF v.kind # "object" THEN {v}
    ELSE LET m == Len(v.props)
             choices == UNION {{Prop(v.props[i].key, w) : w \in Reorderings(v.props[i].value)}
                               : i \in 1..m}
         IN {Obj(s) : s \in {s \in [1..m -> choices] :
                                \A i, j \in 1..m : s[i].key = s[j].key => i = j}}

\* C24: the digest of an object input is the same for every call and for every
\* order in which its keys, top-level or nested, were inserted.
C24_HashIgnoresKeyOrder ==
    last.op = "hash"
        => \A other \in Reorderings(last.args.data) : sha256Object(other) = last.loc.dataHash

\* A hash was computed for an object of two properties whose nested object has
\* two properties that are both written: it has four insertion orders.
C24_Witness ==
    /\ last.op = "hash"
    /\ Len(last.args.data.props) = 2
    /\ \E i \in 1..2 :
          LET nested == last.args.data.props[i].value
          IN /\ nested.kind = "object"
             /\ Len(nested.props) = 2
             /\ \A j \in 1..2 : HasKey(last.args.data, nested.props[j].key)
    /\ Cardinality(Reorderings(last.args.data)) = 4
    /\ last.response.data.dataHash = last.loc.dataHash

RECURSIVE SameContent(_, _)
\* The two values have the same keys with the same values at every depth.
SameContent(v, w) ==
    IF v.kind # "object" \/ w.kind # "object" THEN v = w
    ELSE /\ \A i \in 1..Len(v.props) : HasKey(w, v.props[i].key)
         /\ \A i \in 1..Len(w.props) :
               /\ HasKey(v, w.props[i].key)
               /\ SameContent(Get(v, w.props[i].key), w.props[i].value)

\* C29 (as claimed): an object that differs from the hashed one in the value or
\* presence of a key, at any depth, is serialised to a different string.
C29_SerialisationLosesNothing ==
    last.op = "hash"
        => \A other \in Objects :
              ~SameContent(last.args.data, other)
                  => DataString(other) # DataString(last.args.data)

\* C25 (as claimed): a verify call answers verified true only with a record
\* that a register call stored, one that carries a transaction hash; a record
\* left by POST /timestamp does not make the hash verify.
C25_VerifiedOnlyIfRegistered ==
    (last.op = "verify" /\ last.response.http = 200 /\ last.response.data.verified)
        => Has(last.response.data.timestamp, "transactionHash")

\* C26 (as claimed): a record with a block reference under timestamp:<dataHash>
\* names a transaction that was sent by the record's userAddress and whose
\* payload holds dataHash.
C26_ConfirmedRecordMatchesTransaction ==
    \A h \in Hashes :
        IsFound(Stored("timestamp", h))
            => /\ TxSender(Stored("timestamp", h).transactionHash)
                     = Stored("timestamp", h).userAddress
               /\ TxDataHash(Stored("timestamp", h).transactionHash) = h

\* A register of erd1alice, answered while no register has stored or deleted
\* anything for the hash, is answered neither 404 nor 403.
C27_RegisterStep ==
    (/\ Answers
     /\ last'.op = "register"
     /\ last'.args.userAddress = "erd1alice"
     /\ cache[Key("timestamp", last'.args.dataHash)] = NoEntry)
        => last'.response.http \notin {403, 404}

\* C27 (as claimed): after erd1alice prepared d1, the register of erd1alice
\* within the 300 s TTL is answered as without the prepare of erd1bob for the
\* same data: not NotFound, not Forbidden.
C27_NoInterferenceThroughStaging == [][C27_RegisterStep]_vars

\* A status call that begins while the network holds the transaction as
\* successful, and is answered from the cache, reports it as successful.
C28_FinalStatusStep ==
    (/\ calls' # calls /\ reqs' = reqs
     /\ last'.op = "status"
     /\ chain[last'.args.txHash] # NotOnNetwork
     /\ chain[last'.args.txHash].status = "success")
        => last'.response.data.status = "success"

\* C28 (as claimed): once the network reports a transaction as successful, every
\* later status call returns that status, also when an earlier call cached a
\* non-final status under verification:<txHash>.
C28_CacheNeverHidesFinalStatus == [][C28_FinalStatusStep]_vars

\* Once webhookService.shutdown() has returned, no retry timer fires: no
\* scheduled retry becomes a new POST.
C30_NoRetryStep ==
    reqs["r2"].pc \in {"sd_returned", "exited"}
        => ~(reqs["r1"].pc = "h_timer" /\ reqs'["r1"].pc = "h_post")

\* C30 (as claimed): after webhookService.shutdown() has returned during
\* Application.shutdown(), no further webhook delivery attempt is made; every
\* retry scheduled before is cancelled.
C30_ShutdownCancelsRetries == [][C30_NoRetryStep]_vars

====
